---- MODULE Spec2Model ----
(***************************************************************************)
(* X509Bundle (pyspiffe/bundle/x509_bundle/x509_bundle.py): a trust domain *)
(* and a lock-guarded set of X.509 authorities, with the callers of its    *)
(* operations as threads.  Set objects live in a heap, so that aliasing    *)
(* between the bundle's set and a caller's set is something a behaviour    *)
(* can show.  A certificate c occupies slot c of a set's hash table; the   *)
(* set iterator walks the slots in increasing order.                       *)
(***************************************************************************)
EXTENDS Integers, Sequences, FiniteSets, TLC

\* ---------------------------------------------------------------- bounds
MaxCert == 2
\* the longest certificate sequence a byte input encodes
MaxLen == 2
\* the longest `aud` list of a token
MaxAud == 2
\* the latest second the clock and `exp` take
MaxTime == 3

Certs == 1..MaxCert
Bundles == {"a", "b"}
Threads == {"t1", "t2"}
SeqThreads == {"t1"}
TrustDomains == {"d1", "d2"}
\* None / an empty trust domain: the falsy value of `if not trust_domain`
NoTD == ""
\* members of serialization.Encoding; "Raw" stands for every member other
\* than PEM and DER
Encodings == {"PEM", "DER", "Raw"}
NotABundle == "not_a_bundle"
NoBundle == "no_bundle"
NoThread == "no_thread"

VARIABLES
    live,              \* live[b]: an X509Bundle instance exists in slot b
    trust_domain,      \* self._trust_domain
    x509_authorities,  \* self._x509_authorities: a reference to a set object
    heap,              \* the set objects: reference -> set of certificates
    lock,              \* self.lock: the thread holding it, or NoThread
    files,             \* files[t]: the file at the path thread t uses
    callerRefs,        \* the set objects a caller holds a reference to
    pc,                \* pc[t]: where thread t is in its current call
    args,              \* args[t]: the arguments of thread t's current call
    iter,              \* iter[t]: locks taken, and the set iterator's state
    res,               \* res[t]: what the call returned or raised
    seen               \* seen[t]: the values the saved bundle's set took during
                       \* thread t's save call (history)

vars == <<live, trust_domain, x509_authorities, heap, lock, files,
          callerRefs, pc, args, iter, res, seen>>

bundleVars == <<live, trust_domain, x509_authorities, heap, lock>>

\* ---------------------------------------------------------------- values
Own(b) == <<"own", b>>
Arg(t) == <<"arg", t>>
Ret(t) == <<"ret", t>>
NoRef == <<"none", "none">>
Refs == {Own(b) : b \in Bundles} \cup {Arg(t) : t \in Threads}
           \cup {Ret(t) : t \in Threads}

Truthy(d) == d # NoTD

\* a file: its encoding and the certificates written so far; `of` and `done`
\* record the bundle whose save wrote it and whether that save returned
\* (history)
NoFile == [exists |-> FALSE, enc |-> "none", certs |-> <<>>,
           of |-> NoBundle, done |-> FALSE]
NoBytes == [enc |-> "none", certs |-> <<>>]

\* a dict of JWT headers: the keys it has, and the values of 'alg' and 'typ'
\* ("" when the key is missing); 'kid' is any other header
NoHeaders == [keys |-> {}, alg |-> "", typ |-> ""]
\* a dict of JWT claims: the keys it has, and the values of 'aud' (a list),
\* 'exp' and 'sub' (<<>>, 0, "" when the key is missing); expInt tells
\* whether int(str(exp)) is defined
NoPayload == [keys |-> {}, aud |-> <<>>, exp |-> 0, expInt |-> TRUE, sub |-> ""]

NoArgs == [op |-> "none", self |-> NoBundle, o |-> NoBundle, cert |-> 0,
           td |-> NoTD, given |-> FALSE, S |-> {}, enc |-> "none",
           bytes |-> NoBytes, ref |-> NoRef,
           headers |-> NoHeaders, payload |-> NoPayload, expected |-> {},
           now |-> 0]
NoIter == [k |-> 0, pos |-> 1, used |-> 0]
NoRes == [kind |-> "none", info |-> "none", ref |-> NoRef]

\* a returned value: None, True, False, a bundle, or the set object at r
Return(v) == [kind |-> "return", info |-> v, ref |-> NoRef]
ReturnSet(r) == [kind |-> "return", info |-> "set", ref |-> r]
\* a raised exception of class e, with its message or cause
Raise(e, why) == [kind |-> e, info |-> why, ref |-> NoRef]

\* the set of authorities of bundle b, as of now
Authorities(b) == heap[x509_authorities[b]]

Range(s) == {s[i] : i \in 1..Len(s)}

\* ------------------------------------------------------------ the lock
\* threading.Lock.acquire, blocking: enabled only while the lock is free
Acquire(t, b) ==
    /\ lock[b] = NoThread
    /\ lock' = [lock EXCEPT ![b] = t]

\* leaving `with self.lock:`, by return or by exception
Release(t, b) == lock' = [lock EXCEPT ![b] = NoThread]

\* --------------------------------------------------------------- history
Saving(u) == args[u].op = "save" /\ pc[u] \in {"save", "save_open", "save_iter"}

\* the saved bundle's set took a new value h[...] while u's save is running
SeenAfter(h) ==
    [u \in Threads |->
        IF Saving(u) THEN seen[u] \cup {h[x509_authorities[args[u].self]]}
        ELSE seen[u]]

\* ---------------------------------------------------------------- calls
\* X509Bundle(trust_domain, x509_authorities): the caller passes a set object
\* of its own with the elements S, or None; the bundle goes to slot b
InitCalls ==
    UNION {{[NoArgs EXCEPT !.op = "init", !.self = b, !.td = d, !.given = g, !.S = S] :
              b \in {x \in Bundles : ~live[x]}, d \in TrustDomains \cup {NoTD},
              S \in IF g THEN SUBSET Certs ELSE {{}}} : g \in BOOLEAN}

AuthCalls ==
    {[NoArgs EXCEPT !.op = "x509_authorities", !.self = b] :
        b \in {x \in Bundles : live[x]}}

AddCalls ==
    {[NoArgs EXCEPT !.op = "add_authority", !.self = b, !.cert = c] :
        b \in {x \in Bundles : live[x]}, c \in Certs}

RemoveCalls ==
    {[NoArgs EXCEPT !.op = "remove_authority", !.self = b, !.cert = c] :
        b \in {x \in Bundles : live[x]}, c \in Certs}

EqCalls ==
    {[NoArgs EXCEPT !.op = "eq", !.self = b, !.o = o] :
        b \in {x \in Bundles : live[x]},
        o \in {x \in Bundles : live[x]} \cup {NotABundle}}

SaveCalls ==
    {[NoArgs EXCEPT !.op = "save", !.self = b, !.enc = e] :
        b \in {x \in Bundles : live[x]}, e \in Encodings}

\* a caller changes a set object it holds: adds c, or removes it
MutateCalls ==
    {[NoArgs EXCEPT !.op = "mutate", !.ref = r, !.cert = c] :
        r \in callerRefs, c \in Certs}

\* byte inputs: bytes that are no certificate data at all, or the PEM or DER
\* encoding of a sequence of certificates (the empty sequence: empty input)
Garbage == [enc |-> "garbage", certs |-> <<>>]
CertSeqs == UNION {[1..n -> Certs] : n \in 0..MaxLen}
BytesInputs == {Garbage} \cup
    {[enc |-> e, certs |-> s] : e \in {"PEM", "DER"}, s \in CertSeqs}

\* X509Bundle.parse / parse_raw (trust_domain, bundle_bytes); the bundle
\* returned goes to slot b
ParseCalls ==
    {[NoArgs EXCEPT !.op = m, !.self = b, !.td = d, !.bytes = bs] :
        m \in {"parse", "parse_raw"}, b \in {x \in Bundles : ~live[x]},
        d \in TrustDomains \cup {NoTD}, bs \in BytesInputs}

\* X509Bundle.load(trust_domain, bundle_path, encoding), with the path of
\* the calling thread; the bundle returned goes to slot b
LoadCalls ==
    {[NoArgs EXCEPT !.op = "load", !.self = b, !.td = d, !.enc = e] :
        b \in {x \in Bundles : ~live[x]},
        d \in TrustDomains \cup {NoTD}, e \in Encodings}

\* JwtSvidValidator._SUPPORTED_ALGORITHMS, _SUPPORTED_TYPES, _REQUIRED_CLAIMS
SUPPORTED_ALGORITHMS ==
    {"RS256", "RS384", "RS512", "ES256", "ES384", "ES512",
     "PS256", "PS384", "PS512"}
SUPPORTED_TYPES == {"JWT", "JOSE"}
REQUIRED_CLAIMS == <<"aud", "exp", "sub">>

\* header values: "" is the empty string
AlgValues == SUPPORTED_ALGORITHMS \cup {"HS256", "rs256", ""}
TypValues == SUPPORTED_TYPES \cup {"JWS", ""}

HeaderInputs ==
    {h \in [keys : SUBSET {"alg", "typ", "kid"}, alg : AlgValues, typ : TypValues] :
        /\ "alg" \notin h.keys => h.alg = ""
        /\ "typ" \notin h.keys => h.typ = ""}

\* validate_headers(headers)
HeaderCalls ==
    {[NoArgs EXCEPT !.op = "validate_headers", !.headers = h] : h \in HeaderInputs}

AudValues == {"", "a", "b"}
AudLists == UNION {[1..n -> AudValues] : n \in 0..MaxAud}
ExpectedValues == {"", "a", "b", "c"}
Times == 0..MaxTime

PayloadInputs ==
    {p \in [keys : SUBSET {"aud", "exp", "sub"}, aud : AudLists, exp : Times,
            expInt : BOOLEAN, sub : {"", "s"}] :
        /\ "aud" \notin p.keys => p.aud = <<>>
        /\ "exp" \notin p.keys => p.exp = 0 /\ p.expInt
        /\ ~p.expInt => p.exp = 1
        /\ "sub" \notin p.keys => p.sub = ""}

\* validate_claims(payload, expected_audience), with the clock showing `now`
\* when the call reads it
ClaimsCalls ==
    {[NoArgs EXCEPT !.op = "validate_claims", !.payload = p, !.expected = E,
                    !.now = n] :
        p \in PayloadInputs, E \in SUBSET ExpectedValues, n \in Times}

EntryPc(op) ==
    CASE op = "init" -> "init"
      [] op = "x509_authorities" -> "auth_lock"
      [] op = "add_authority" -> "add_lock"
      [] op = "remove_authority" -> "rm_lock"
      [] op = "eq" -> "eq"
      [] op = "save" -> "save"
      [] op = "parse" -> "parse"
      [] op = "parse_raw" -> "parse_raw"
      [] op = "mutate" -> "mutate"
      [] op = "load" -> "load"
      [] op = "validate_headers" -> "validate_headers"
      [] op = "validate_claims" -> "validate_claims"

\* thread t starts the call a
Call(t, calls) ==
    /\ pc[t] = "idle"
    /\ \E a \in calls :
          /\ args' = [args EXCEPT ![t] = a]
          /\ pc' = [pc EXCEPT ![t] = EntryPc(a.op)]
          /\ seen' = [seen EXCEPT ![t] =
                        IF a.op = "save" THEN {Authorities(a.self)} ELSE {}]
    /\ UNCHANGED <<bundleVars, files, callerRefs, iter, res>>

DropFrame(t) ==
    /\ pc[t] = "done"
    /\ pc' = [pc EXCEPT ![t] = "idle"]
    /\ args' = [args EXCEPT ![t] = NoArgs]
    /\ iter' = [iter EXCEPT ![t] = NoIter]
    /\ res' = [res EXCEPT ![t] = NoRes]
    /\ seen' = [seen EXCEPT ![t] = {}]

\* thread t's call is over; the caller keeps what it was given
ReturnToCaller(t) ==
    /\ DropFrame(t)
    /\ UNCHANGED <<bundleVars, files, callerRefs>>

\* thread t's call is over, and the caller lets go of the sets it holds
ReturnAndDrop(t) ==
    /\ DropFrame(t)
    /\ heap' = [heap EXCEPT ![Ret(t)] = {}, ![Arg(t)] = {}]
    /\ callerRefs' = callerRefs \ {Ret(t), Arg(t)}
    /\ UNCHANGED <<live, trust_domain, x509_authorities, lock, files>>

Finish(t, r) ==
    /\ pc' = [pc EXCEPT ![t] = "done"]
    /\ res' = [res EXCEPT ![t] = r]

\* ------------------------------------------------------------- __init__
\* pyspiffe.spiffe_id.errors.MISSING_TRUST_DOMAIN
MISSING_TRUST_DOMAIN == "Trust domain is missing."

TrustDomainNeverMissing(d) == FALSE

\* `if not trust_domain`
TrustDomainMissing(d) == ~Truthy(d)

InitAuthoritiesNoCopy(b, src, S) ==
    [ref |-> IF src # NoRef /\ S # {} THEN src ELSE Own(b),
     val |-> IF src # NoRef /\ S # {} THEN S ELSE {}]

\* `x509_authorities.copy() if x509_authorities else set()`: a new set
\* object Own(b), holding the elements of the set passed in; src is that
\* set object (NoRef: None was passed, or a set no caller holds), S its
\* elements
InitAuthorities(b, src, S) ==
    [ref |-> Own(b), val |-> IF S # {} THEN S ELSE {}]

\* X509Bundle.__init__ run by thread t for slot b, in the heap h
NewBundle(t, b, d, src, S, h) ==
    LET r == InitAuthorities(b, src, S) IN
    /\ lock' = [lock EXCEPT ![b] = NoThread]
    /\ IF TrustDomainMissing(d)
       THEN /\ Finish(t, Raise("X509BundleError", MISSING_TRUST_DOMAIN))
            /\ heap' = h
            /\ UNCHANGED <<live, trust_domain, x509_authorities>>
       ELSE /\ live' = [live EXCEPT ![b] = TRUE]
            /\ trust_domain' = [trust_domain EXCEPT ![b] = d]
            /\ x509_authorities' = [x509_authorities EXCEPT ![b] = r.ref]
            /\ heap' = [h EXCEPT ![r.ref] = r.val]
            /\ Finish(t, Return("bundle"))

\* X509Bundle(trust_domain, x509_authorities) called by thread t, whose set
\* object is Arg(t)
Construct(t) ==
    /\ pc[t] = "init"
    /\ LET a == args[t] IN
         IF a.given
         THEN /\ NewBundle(t, a.self, a.td, Arg(t), a.S,
                           [heap EXCEPT ![Arg(t)] = a.S])
              /\ callerRefs' = callerRefs \cup {Arg(t)}
         ELSE /\ NewBundle(t, a.self, a.td, NoRef, {}, heap)
              /\ UNCHANGED callerRefs
    /\ UNCHANGED <<files, args, iter, seen>>

\* ----------------------------------------------------- x509_authorities
\* the copy is taken without the lock
AuthNoLock(t) ==
    /\ pc[t] = "auth_lock"
    /\ pc' = [pc EXCEPT ![t] = "auth_body"]
    /\ UNCHANGED <<live, trust_domain, x509_authorities, heap, lock, files,
                   callerRefs, args, iter, res, seen>>

\* `with self.lock:` of x509_authorities
AuthLock(t) ==
    /\ pc[t] = "auth_lock"
    /\ Acquire(t, args[t].self)
    /\ pc' = [pc EXCEPT ![t] = "auth_body"]
    /\ UNCHANGED <<live, trust_domain, x509_authorities, heap, files,
                   callerRefs, args, iter, res, seen>>

AuthoritiesLive(t, b) == [ref |-> x509_authorities[b], val |-> Authorities(b)]

\* `self._x509_authorities.copy()`: a new set object, handed to the caller
AuthoritiesCopy(t, b) == [ref |-> Ret(t), val |-> Authorities(b)]

AuthBody(t) ==
    /\ pc[t] = "auth_body"
    /\ LET b == args[t].self
           r == AuthoritiesCopy(t, b) IN
         /\ heap' = [heap EXCEPT ![r.ref] = r.val]
         /\ callerRefs' = callerRefs \cup {r.ref}
         /\ Release(t, b)
         /\ Finish(t, ReturnSet(r.ref))
    /\ UNCHANGED <<live, trust_domain, x509_authorities, files, args, iter, seen>>

\* -------------------------------------------------------- add_authority
AddLock(t) ==
    /\ pc[t] = "add_lock"
    /\ Acquire(t, args[t].self)
    /\ pc' = [pc EXCEPT ![t] = "add_body"]
    /\ UNCHANGED <<live, trust_domain, x509_authorities, heap, files,
                   callerRefs, args, iter, res, seen>>

SetReplace(S, c) == {c}

\* set.add
SetAdd(S, c) == S \cup {c}

AddBody(t) ==
    /\ pc[t] = "add_body"
    /\ LET b == args[t].self
           h == [heap EXCEPT ![x509_authorities[b]] = SetAdd(@, args[t].cert)] IN
         /\ heap' = h
         /\ seen' = SeenAfter(h)
         /\ Release(t, b)
         /\ Finish(t, Return("None"))
    /\ UNCHANGED <<live, trust_domain, x509_authorities, files, callerRefs,
                   args, iter>>

\* ----------------------------------------------------- remove_authority
RemoveLock(t) ==
    /\ pc[t] = "rm_lock"
    /\ Acquire(t, args[t].self)
    /\ pc' = [pc EXCEPT ![t] = "rm_body"]
    /\ UNCHANGED <<live, trust_domain, x509_authorities, heap, files,
                   callerRefs, args, iter, res, seen>>

RemoveLenient(S, c) == [set |-> S \ {c}, res |-> Return("None")]

\* `if not self._x509_authorities: return`, then set.remove, which raises
\* KeyError for an element that is not in the set
RemoveOutcome(S, c) ==
    IF S = {} THEN [set |-> S, res |-> Return("None")]
    ELSE IF c \in S THEN [set |-> S \ {c}, res |-> Return("None")]
    ELSE [set |-> S, res |-> Raise("KeyError", "not in set")]

\* the lock is released only when an element was removed
RemoveBodyKeepsLock(t) ==
    /\ pc[t] = "rm_body"
    /\ LET b == args[t].self
           out == RemoveOutcome(Authorities(b), args[t].cert)
           h == [heap EXCEPT ![x509_authorities[b]] = out.set] IN
         /\ heap' = h
         /\ seen' = SeenAfter(h)
         /\ IF out.set # Authorities(b) THEN Release(t, b) ELSE UNCHANGED lock
         /\ Finish(t, out.res)
    /\ UNCHANGED <<live, trust_domain, x509_authorities, files, callerRefs,
                   args, iter>>

\* the body of `with self.lock:` in remove_authority; the lock is released
\* on the early return, on KeyError and on the normal end alike
RemoveBody(t) ==
    /\ pc[t] = "rm_body"
    /\ LET b == args[t].self
           out == RemoveOutcome(Authorities(b), args[t].cert)
           h == [heap EXCEPT ![x509_authorities[b]] = out.set] IN
         /\ heap' = h
         /\ seen' = SeenAfter(h)
         /\ Release(t, b)
         /\ Finish(t, out.res)
    /\ UNCHANGED <<live, trust_domain, x509_authorities, files, callerRefs,
                   args, iter>>

\* ------------------------------------------------------------ the caller
\* the caller adds c to, or removes it from, a set object it holds
Mutate(t) ==
    /\ pc[t] = "mutate"
    /\ LET r == args[t].ref
           c == args[t].cert
           h == [heap EXCEPT ![r] = IF c \in @ THEN @ \ {c} ELSE @ \cup {c}] IN
         /\ heap' = h
         /\ seen' = SeenAfter(h)
         /\ Finish(t, Return("None"))
    /\ UNCHANGED <<live, trust_domain, x509_authorities, lock, files,
                   callerRefs, args, iter>>

\* --------------------------------------------------------------- __eq__
\* `isinstance(o, X509Bundle)`
IsBundle(o) == o # NotABundle

EqIsInstance(t) ==
    /\ pc[t] = "eq"
    /\ IF ~IsBundle(args[t].o)
       THEN Finish(t, Return("False"))
       ELSE pc' = [pc EXCEPT ![t] = "eq_lock"] /\ UNCHANGED res
    /\ UNCHANGED <<bundleVars, files, callerRefs, args, iter, seen>>

EqLocksBoth(b, o) == <<b, o>>

\* the locks __eq__ takes, in order: `with self.lock:` and no other
EqLocks(b, o) == <<b>>

EqAcquire(t) ==
    /\ pc[t] = "eq_lock"
    /\ LET ls == EqLocks(args[t].self, args[t].o)
           k == iter[t].k IN
         /\ Acquire(t, ls[k + 1])
         /\ iter' = [iter EXCEPT ![t].k = k + 1]
         /\ pc' = [pc EXCEPT ![t] = IF k + 1 = Len(ls) THEN "eq_td" ELSE "eq_lock"]
    /\ UNCHANGED <<live, trust_domain, x509_authorities, heap, files,
                   callerRefs, args, res, seen>>

\* leaving __eq__'s `with`: every lock the thread took is released
EqRelease(t) ==
    lock' = [b \in Bundles |-> IF lock[b] = t THEN NoThread ELSE lock[b]]

TrustDomainEqAlways(d1, d2) == TRUE

\* TrustDomain.__eq__: equality of values
TrustDomainEq(d1, d2) == d1 = d2

\* `self._trust_domain.__eq__(o._trust_domain) and ...`
EqTrustDomain(t) ==
    /\ pc[t] = "eq_td"
    /\ IF ~TrustDomainEq(trust_domain[args[t].self], trust_domain[args[t].o])
       THEN EqRelease(t) /\ Finish(t, Return("False"))
       ELSE pc' = [pc EXCEPT ![t] = "eq_size"] /\ UNCHANGED <<lock, res>>
    /\ UNCHANGED <<live, trust_domain, x509_authorities, heap, files,
                   callerRefs, args, iter, seen>>

SizesDifferNever(S1, S2) == FALSE

\* set == set begins by comparing the two sizes
SizesDiffer(S1, S2) == Cardinality(S1) # Cardinality(S2)

EqSize(t) ==
    /\ pc[t] = "eq_size"
    /\ IF SizesDiffer(Authorities(args[t].self), Authorities(args[t].o))
       THEN EqRelease(t) /\ Finish(t, Return("False")) /\ UNCHANGED iter
       ELSE /\ pc' = [pc EXCEPT ![t] = "eq_elem"]
            /\ iter' = [iter EXCEPT ![t].pos = 1]
            /\ UNCHANGED <<lock, res>>
    /\ UNCHANGED <<live, trust_domain, x509_authorities, heap, files,
                   callerRefs, args, seen>>

\* the elements of S in the slots from pos on
From(S, pos) == {c \in S : c >= pos}
Least(S) == CHOOSE c \in S : \A d \in S : c <= d

\* ... and then looks up each element of the left set in the right set; a
\* lookup compares certificates with Certificate.__eq__, so other threads
\* can run between two lookups
EqElem(t) ==
    /\ pc[t] = "eq_elem"
    /\ LET rest == From(Authorities(args[t].self), iter[t].pos) IN
         IF rest = {}
         THEN EqRelease(t) /\ Finish(t, Return("True")) /\ UNCHANGED iter
         ELSE IF Least(rest) \notin Authorities(args[t].o)
         THEN EqRelease(t) /\ Finish(t, Return("False")) /\ UNCHANGED iter
         ELSE /\ iter' = [iter EXCEPT ![t].pos = Least(rest) + 1]
              /\ UNCHANGED <<lock, pc, res>>
    /\ UNCHANGED <<live, trust_domain, x509_authorities, heap, files,
                   callerRefs, args, seen>>

\* ----------------------------------------------------------------- save
EncodingAnySupported(e) == TRUE

\* `encoding not in [encoding.PEM, encoding.DER]`, negated
EncodingSupported(e) == e \in {"PEM", "DER"}

SaveCheck(t) ==
    /\ pc[t] = "save"
    /\ IF ~EncodingSupported(args[t].enc)
       THEN Finish(t, Raise("ArgumentError", "Encoding not supported"))
       ELSE pc' = [pc EXCEPT ![t] = "save_open"] /\ UNCHANGED res
    /\ UNCHANGED <<bundleVars, files, callerRefs, args, iter, seen>>

\* raised inside write_certificates_to_file, caught by `except Exception`
SaveFailed(cause) == Raise("SaveX509BundleError", cause)

\* write_certificates_to_file opens the file for writing, which empties it,
\* and starts to iterate over the set it was given: the bundle's own set
\* object, read with no lock held
SaveOpen(t) ==
    /\ pc[t] = "save_open"
    /\ \E ok \in BOOLEAN :
         IF ok
         THEN /\ files' = [files EXCEPT ![t] =
                    [exists |-> TRUE, enc |-> args[t].enc, certs |-> <<>>,
                     of |-> args[t].self, done |-> FALSE]]
              /\ iter' = [iter EXCEPT ![t].pos = 1,
                    ![t].used = Cardinality(Authorities(args[t].self))]
              /\ pc' = [pc EXCEPT ![t] = "save_iter"]
              /\ UNCHANGED res
         ELSE /\ Finish(t, SaveFailed("OSError"))
              /\ UNCHANGED <<files, iter>>
    /\ UNCHANGED <<bundleVars, callerRefs, args, seen>>

\* one round of `for cert in certificates`: the set iterator raises
\* RuntimeError when the set's size changed since the iteration began, ends
\* at the end of the table, and otherwise yields the next element, which is
\* serialized and written
SaveIter(t) ==
    /\ pc[t] = "save_iter"
    /\ LET S == Authorities(args[t].self)
           rest == From(S, iter[t].pos) IN
         IF Cardinality(S) # iter[t].used
         THEN Finish(t, SaveFailed("RuntimeError")) /\ UNCHANGED <<files, iter>>
         ELSE IF rest = {}
         THEN /\ Finish(t, Return("None"))
              /\ files' = [files EXCEPT ![t].done = TRUE]
              /\ UNCHANGED iter
         ELSE \E ok \in BOOLEAN :
                IF ok
                THEN /\ files' = [files EXCEPT ![t].certs = Append(@, Least(rest))]
                     /\ iter' = [iter EXCEPT ![t].pos = Least(rest) + 1]
                     /\ UNCHANGED <<pc, res>>
                ELSE Finish(t, SaveFailed("OSError")) /\ UNCHANGED <<files, iter>>
    /\ UNCHANGED <<bundleVars, callerRefs, args, seen>>

\* ------------------------------------------------------ parse, parse_raw
\* parse_pem_certificates / parse_der_certificates: the certificates the
\* bytes encode, or a failure for bytes that are not certificates in the
\* wanted encoding, and for empty input
Decode(enc, bs) ==
    IF bs.enc = enc /\ bs.certs # <<>>
    THEN [ok |-> TRUE, certs |-> bs.certs]
    ELSE [ok |-> FALSE, certs |-> <<>>]

\* a decode failure yields a bundle of what was decoded
ParseWithPartial(t, enc) ==
    LET a == args[t]
        d == Decode(enc, a.bytes) IN
    /\ NewBundle(t, a.self, a.td, NoRef, Range(d.certs), heap)
    /\ UNCHANGED <<files, callerRefs, args, iter, seen>>

\* the body of parse (enc = "PEM") and of parse_raw (enc = "DER"): decode
\* inside `try`, any exception becomes ParseX509BundleError, and otherwise
\* `X509Bundle(trust_domain, set(authorities))`
ParseWith(t, enc) ==
    LET a == args[t]
        d == Decode(enc, a.bytes) IN
    /\ IF ~d.ok
       THEN /\ Finish(t, Raise("ParseX509BundleError", "decode"))
            /\ UNCHANGED bundleVars
       ELSE NewBundle(t, a.self, a.td, NoRef, Range(d.certs), heap)
    /\ UNCHANGED <<files, callerRefs, args, iter, seen>>

Parse(t) == pc[t] = "parse" /\ ParseWith(t, "PEM")

ParseRaw(t) == pc[t] = "parse_raw" /\ ParseWith(t, "DER")

\* ----------------------------------------------------------------- load
\* load_certificates_bytes_from_file: all bytes of the file, or a failure
\* when the file is missing or (ok = FALSE) cannot be read
ReadFile(f, ok) ==
    IF f.exists /\ ok
    THEN [ok |-> TRUE, bytes |-> [enc |-> f.enc, certs |-> f.certs]]
    ELSE [ok |-> FALSE, bytes |-> NoBytes]

\* `except Exception as e: raise LoadX509BundleError(str(e))`
LoadFailed(cause) == Raise("LoadX509BundleError", cause)

\* the read comes first, before the encoding is looked at
LoadRead(t) ==
    /\ pc[t] = "load"
    /\ \E ok \in BOOLEAN :
         LET r == ReadFile(files[t], ok) IN
         IF r.ok
         THEN /\ args' = [args EXCEPT ![t].bytes = r.bytes]
              /\ pc' = [pc EXCEPT ![t] = "load_enc"]
              /\ UNCHANGED res
         ELSE /\ Finish(t, LoadFailed("OSError"))
              /\ UNCHANGED args
    /\ UNCHANGED <<bundleVars, files, callerRefs, iter, seen>>

LoadDecoderSwapped(e) ==
    CASE e = "PEM" -> "DER"
      [] e = "DER" -> "PEM"
      [] OTHER -> "none"

\* `if encoding == PEM: return cls.parse(...)`, `if encoding == DER: return
\* cls.parse_raw(...)`: the decoder load hands the bytes to
LoadDecoder(e) ==
    CASE e = "PEM" -> "PEM"
      [] e = "DER" -> "DER"
      [] OTHER -> "none"

LoadDispatch(t) ==
    /\ pc[t] = "load_enc"
    /\ LET dec == LoadDecoder(args[t].enc) IN
         IF dec = "none"
         THEN /\ Finish(t, Raise("ArgumentError", "Encoding not supported"))
              /\ UNCHANGED <<bundleVars, files, callerRefs, args, iter, seen>>
         ELSE ParseWith(t, dec)

\* ------------------------------------------------------- JwtSvidValidator
\* `not headers`: None or an empty dict
HeadersEmpty(h) == h.keys = {}

\* `not headers.get(key)`: the key is missing or its value is ''
HeaderFalsy(h, key) ==
    \/ key \notin h.keys
    \/ key = "alg" /\ h.alg = ""
    \/ key = "typ" /\ h.typ = ""

\* the type is looked at before the algorithm
validate_headers_typ_first(h) ==
    IF HeadersEmpty(h)
    THEN Raise("ValueError", "header cannot be empty")
    ELSE IF ~HeaderFalsy(h, "typ") /\ h.typ \notin SUPPORTED_TYPES
    THEN Raise("InvalidTypeError", h.typ)
    ELSE IF HeaderFalsy(h, "alg")
    THEN Raise("ValueError", "header alg cannot be empty")
    ELSE IF h.alg \notin SUPPORTED_ALGORITHMS
    THEN Raise("InvalidAlgorithmError", h.alg)
    ELSE Return("None")

\* JwtSvidValidator.validate_headers: what it raises, or its return of None
validate_headers(h) ==
    IF HeadersEmpty(h)
    THEN Raise("ValueError", "header cannot be empty")
    ELSE IF HeaderFalsy(h, "alg")
    THEN Raise("ValueError", "header alg cannot be empty")
    ELSE IF h.alg \notin SUPPORTED_ALGORITHMS
    THEN Raise("InvalidAlgorithmError", h.alg)
    ELSE IF ~HeaderFalsy(h, "typ") /\ h.typ \notin SUPPORTED_TYPES
    THEN Raise("InvalidTypeError", h.typ)
    ELSE Return("None")

ValidateHeaders(t) ==
    /\ pc[t] = "validate_headers"
    /\ Finish(t, validate_headers(args[t].headers))
    /\ UNCHANGED <<bundleVars, files, callerRefs, args, iter, seen>>

\* `not payload.get(claim)`: the claim is missing, or its value is falsy: an
\* empty list, the number 0, an empty string
ClaimFalsy(p, claim) ==
    \/ claim \notin p.keys
    \/ claim = "aud" /\ p.aud = <<>>
    \/ claim = "exp" /\ p.exp = 0
    \/ claim = "sub" /\ p.sub = ""

\* the required claims that fail `for claim in self._REQUIRED_CLAIMS`, by
\* their place in the list
MissingClaims(p) ==
    {i \in 1..Len(REQUIRED_CLAIMS) : ClaimFalsy(p, REQUIRED_CLAIMS[i])}

Min(S) == CHOOSE x \in S : \A y \in S : x <= y

ExpiredAtOrBefore(exp, now) == exp <= now

\* `int_date < utctime`
Expired(exp, now) == exp < now

\* JwtSvidValidator._validate_exp, with the clock showing `now`
validate_exp(p, now) ==
    IF ~p.expInt THEN Raise("ValueError", "invalid literal for int()")
    ELSE IF Expired(p.exp, now) THEN Raise("TokenExpiredError", "none")
    ELSE Return("None")

AUDIENCE_NOT_MATCH_ERROR == "audience does not match expected value"

AudienceClaimNeverEmpty(aud) == FALSE

\* `not audience_claim or all(aud == '' for aud in audience_claim)`
AudienceClaimEmpty(aud) == aud = <<>> \/ \A i \in 1..Len(aud) : aud[i] = ""

AudienceIntersects(aud, expected) == \E e \in expected : e \in Range(aud)

\* `all(aud in audience_claim for aud in expected_audience)`
AudienceMatches(aud, expected) == \A e \in expected : e \in Range(aud)

\* JwtSvidValidator._validate_aud
validate_aud(aud, expected) ==
    IF expected = {}
    THEN Raise("ValueError", "expected_audience cannot be empty")
    ELSE IF AudienceClaimEmpty(aud)
    THEN Raise("InvalidClaimError", "audience_claim cannot be empty")
    ELSE IF ~AudienceMatches(aud, expected)
    THEN Raise("InvalidClaimError", AUDIENCE_NOT_MATCH_ERROR)
    ELSE Return("None")

\* the audience is validated before the expiration
validate_claims_aud_first(p, expected, now) ==
    IF MissingClaims(p) # {}
    THEN Raise("MissingClaimError", REQUIRED_CLAIMS[Min(MissingClaims(p))])
    ELSE IF validate_aud(p.aud, expected) # Return("None")
    THEN validate_aud(p.aud, expected)
    ELSE validate_exp(p, now)

\* JwtSvidValidator.validate_claims: what it raises, or its return of None
validate_claims(p, expected, now) ==
    IF MissingClaims(p) # {}
    THEN Raise("MissingClaimError", REQUIRED_CLAIMS[Min(MissingClaims(p))])
    ELSE IF validate_exp(p, now) # Return("None")
    THEN validate_exp(p, now)
    ELSE validate_aud(p.aud, expected)

ValidateClaims(t) ==
    /\ pc[t] = "validate_claims"
    /\ Finish(t, validate_claims(args[t].payload, args[t].expected, args[t].now))
    /\ UNCHANGED <<bundleVars, files, callerRefs, args, iter, seen>>

\* ------------------------------------------------------- specifications
TypeOK ==
    /\ live \in [Bundles -> BOOLEAN]
    /\ trust_domain \in [Bundles -> TrustDomains \cup {NoTD}]
    /\ x509_authorities \in [Bundles -> Refs \cup {NoRef}]
    /\ heap \in [Refs -> SUBSET Certs]
    /\ lock \in [Bundles -> Threads \cup {NoThread}]
    /\ callerRefs \subseteq Refs
    /\ \A t \in Threads : files[t].exists \in BOOLEAN

IdleThreads ==
    /\ pc = [t \in Threads |-> "idle"]
    /\ args = [t \in Threads |-> NoArgs]
    /\ iter = [t \in Threads |-> NoIter]
    /\ res = [t \in Threads |-> NoRes]
    /\ seen = [t \in Threads |-> {}]
    /\ files = [t \in Threads |-> NoFile]
    /\ callerRefs = {}

\* no bundle has been constructed yet
Init ==
    /\ live = [b \in Bundles |-> FALSE]
    /\ trust_domain = [b \in Bundles |-> NoTD]
    /\ x509_authorities = [b \in Bundles |-> NoRef]
    /\ heap = [r \in Refs |-> {}]
    /\ lock = [b \in Bundles |-> NoThread]
    /\ IdleThreads

\* one caller, every operation of the bundle
Next ==
    \E t \in SeqThreads :
        \/ Call(t, InitCalls \cup AuthCalls \cup AddCalls \cup RemoveCalls
                     \cup EqCalls \cup SaveCalls \cup ParseCalls \cup LoadCalls)
        \/ Construct(t)
        \/ AuthLock(t) \/ AuthBody(t)
        \/ AddLock(t) \/ AddBody(t)
        \/ RemoveLock(t) \/ RemoveBody(t)
        \/ EqIsInstance(t) \/ EqAcquire(t) \/ EqTrustDomain(t)
        \/ EqSize(t) \/ EqElem(t)
        \/ SaveCheck(t) \/ SaveOpen(t) \/ SaveIter(t)
        \/ Parse(t) \/ ParseRaw(t)
        \/ LoadRead(t) \/ LoadDispatch(t)
        \/ ReturnAndDrop(t)

Spec == Init /\ [][Next]_vars

\* one caller that keeps the sets it passed in and was handed, and changes
\* them
AliasNext ==
    \E t \in SeqThreads :
        \/ Call(t, InitCalls \cup AuthCalls \cup AddCalls \cup RemoveCalls
                     \cup MutateCalls)
        \/ Construct(t)
        \/ AuthLock(t) \/ AuthBody(t)
        \/ AddLock(t) \/ AddBody(t)
        \/ RemoveLock(t) \/ RemoveBody(t)
        \/ Mutate(t)
        \/ ReturnToCaller(t)

AliasSpec == Init /\ [][AliasNext]_vars

\* one caller of the validator, which holds no state
ValNext ==
    \E t \in SeqThreads :
        \/ Call(t, HeaderCalls \cup ClaimsCalls)
        \/ ValidateHeaders(t)
        \/ ValidateClaims(t)
        \/ ReturnToCaller(t)

ValSpec == Init /\ [][ValNext]_vars

\* both bundles constructed, with any trust domains and authority sets
ConcInit ==
    /\ live = [b \in Bundles |-> TRUE]
    /\ trust_domain \in [Bundles -> TrustDomains]
    /\ x509_authorities = [b \in Bundles |-> Own(b)]
    /\ \E f \in [Bundles -> SUBSET Certs] :
         heap = [r \in Refs |-> IF r[1] = "own" THEN f[r[2]] ELSE {}]
    /\ lock = [b \in Bundles |-> NoThread]
    /\ IdleThreads

\* thread t goes one step on in the call it is in
EqStep(t) ==
    \/ AuthLock(t) \/ AuthBody(t)
    \/ AddLock(t) \/ AddBody(t)
    \/ RemoveLock(t) \/ RemoveBody(t)
    \/ EqIsInstance(t) \/ EqAcquire(t) \/ EqTrustDomain(t)
    \/ EqSize(t) \/ EqElem(t)
    \/ ReturnAndDrop(t)

\* several threads comparing, reading and changing the bundles
EqNext ==
    \E t \in Threads :
        \/ Call(t, AuthCalls \cup AddCalls \cup RemoveCalls \cup EqCalls)
        \/ EqStep(t)

EqSpec == ConcInit /\ [][EqNext]_vars

\* fair scheduling: a thread that can go on does, and a thread waiting for
\* a lock that is free again and again gets it
Fairness == \A t \in Threads : SF_vars(EqStep(t))

\* trust domains are only compared: a's is fixed, b's is the same or another
FairInit == ConcInit /\ trust_domain["a"] = "d1"

FairEqSpec == FairInit /\ [][EqNext]_vars /\ Fairness

Savers == {"t1"}

\* one thread saving while the others change the bundles
SaveNext ==
    \E t \in Threads :
        \/ Call(t, IF t \in Savers THEN SaveCalls ELSE AddCalls \cup RemoveCalls)
        \/ AddLock(t) \/ AddBody(t)
        \/ RemoveLock(t) \/ RemoveBody(t)
        \/ SaveCheck(t) \/ SaveOpen(t) \/ SaveIter(t)
        \/ ReturnAndDrop(t)

\* saving reads no trust domain: one value for both bundles
SaveInit == ConcInit /\ trust_domain = [b \in Bundles |-> "d1"]

SaveSpec == SaveInit /\ [][SaveNext]_vars

\* --------------------------------------------------------------- claims
\* the step by which thread t's call of op ends
Done(t, op) == args[t].op = op /\ pc[t] # "done" /\ pc'[t] = "done"

\* thread t's call of op has ended and not yet returned to the caller
Ended(t, op) == pc[t] = "done" /\ args[t].op = op

AuthoritiesAfter(b) == heap'[x509_authorities'[b]]

\* C1: the bundle never shares a set object with a caller: a bundle just
\* constructed from (d, S) holds exactly S (the empty set when S is
\* missing); x509_authorities() returns a set equal to the bundle's; a
\* caller changing a set it passed in or was handed changes no bundle; and
\* add_authority / remove_authority change no set a caller holds.
C1_NoAliasing ==
    [][\A t \in Threads :
         /\ Done(t, "init") /\ res'[t].kind = "return" =>
               AuthoritiesAfter(args[t].self) =
                   (IF args[t].given THEN args[t].S ELSE {})
         /\ Done(t, "x509_authorities") =>
               /\ heap'[res'[t].ref] = Authorities(args[t].self)
               /\ AuthoritiesAfter(args[t].self) = Authorities(args[t].self)
         /\ Done(t, "mutate") =>
               \A b \in Bundles : live[b] => AuthoritiesAfter(b) = Authorities(b)
         /\ Done(t, "add_authority") \/ Done(t, "remove_authority") =>
               \A r \in callerRefs : heap'[r] = heap[r]
      ]_vars

\* a caller has just changed the set it had passed to the constructor of a,
\* holds a set returned by a.x509_authorities(), and both differ from a's set
C1_Witness ==
    \E t \in Threads :
        /\ Ended(t, "mutate") /\ args[t].ref = Arg(t)
        /\ live["a"] /\ ~live["b"]
        /\ {Arg(t), Ret(t)} \subseteq callerRefs
        /\ heap[Arg(t)] # Authorities("a")
        /\ heap[Ret(t)] # Authorities("a")
        /\ Authorities("a") # {}

\* C2: construction with an empty or absent trust domain raises
\* X509BundleError(MISSING_TRUST_DOMAIN) whatever the authority set, and
\* leaves no bundle; every live bundle has a non-empty trust domain; and no
\* step of any operation changes a live bundle's trust domain.
C2_TrustDomainPresent ==
    /\ [](\A b \in Bundles : live[b] => Truthy(trust_domain[b]))
    /\ [](\A t \in Threads :
            Ended(t, "init") /\ ~Truthy(args[t].td) =>
               /\ res[t] = Raise("X509BundleError", MISSING_TRUST_DOMAIN)
               /\ ~live[args[t].self])
    /\ [][\A b \in Bundles :
            live[b] => live'[b] /\ trust_domain'[b] = trust_domain[b]]_vars

\* a construction with no trust domain and a non-empty authority set has
\* failed, next to a live bundle
C2_Witness ==
    \E t \in Threads :
        /\ Ended(t, "init") /\ ~Truthy(args[t].td)
        /\ args[t].given /\ args[t].S # {}
        /\ res[t].kind = "X509BundleError"
        /\ \E b \in Bundles : live[b] /\ Authorities(b) # {}

\* C3: add_authority(c) returns normally; afterwards the set holds c and
\* everything it held before; when c was already in the set the set is
\* unchanged, and otherwise it has grown by exactly one element.
C3_AddIdempotent ==
    [][\A t \in Threads :
         Done(t, "add_authority") =>
            LET b == args[t].self
                c == args[t].cert
                S == Authorities(b)
                S2 == AuthoritiesAfter(b) IN
            /\ res'[t] = Return("None")
            /\ c \in S2 /\ S \subseteq S2
            /\ (c \in S => S2 = S)
            /\ Cardinality(S2) = Cardinality(S) + (IF c \in S THEN 0 ELSE 1)
      ]_vars

\* add_authority has ended on a bundle that now holds two authorities
C3_Witness ==
    \E t \in Threads :
        /\ Ended(t, "add_authority")
        /\ res[t] = Return("None")
        /\ Cardinality(Authorities(args[t].self)) >= 2

\* C4: remove_authority(c): with c in the set, the set afterwards is the
\* old set without c, and no other bundle changes; with an empty set it
\* returns normally and the set stays empty; with a non-empty set that lacks
\* c it raises KeyError and the set is unchanged.
C4_RemoveOutcomes ==
    [][\A t \in Threads :
         Done(t, "remove_authority") =>
            LET b == args[t].self
                c == args[t].cert
                S == Authorities(b)
                S2 == AuthoritiesAfter(b) IN
            /\ c \in S => S2 = S \ {c} /\ res'[t] = Return("None")
            /\ S = {} => S2 = {} /\ res'[t] = Return("None")
            /\ S # {} /\ c \notin S => S2 = S /\ res'[t].kind = "KeyError"
            /\ \A x \in Bundles \ {b} : live[x] => AuthoritiesAfter(x) = Authorities(x)
            /\ UNCHANGED <<live, trust_domain, x509_authorities>>
      ]_vars

\* remove_authority has raised KeyError on a non-empty set
C4_Witness ==
    \E t \in Threads :
        /\ Ended(t, "remove_authority")
        /\ res[t].kind = "KeyError"
        /\ Authorities(args[t].self) # {}
        /\ args[t].cert \notin Authorities(args[t].self)

\* C5: with one caller, a == b returns True exactly when b is a bundle, the
\* trust domains are equal and the authority sets are equal, and False
\* otherwise (so False for anything that is not a bundle); no step of the
\* comparison changes a bundle.
C5_Equality ==
    [][\A t \in Threads :
         /\ Done(t, "eq") =>
               LET b == args[t].self
                   o == args[t].o IN
               /\ res'[t].kind = "return" /\ res'[t].info \in {"True", "False"}
               /\ res'[t].info = "True" <=>
                     /\ IsBundle(o)
                     /\ trust_domain[b] = trust_domain[o]
                     /\ Authorities(b) = Authorities(o)
         /\ args[t].op = "eq" /\ pc[t] # "done" =>
               UNCHANGED <<live, trust_domain, x509_authorities, heap>>
      ]_vars

\* a == b has returned True for two distinct bundles with authorities
C5_Witness ==
    \E t \in Threads :
        /\ Ended(t, "eq") /\ res[t].info = "True"
        /\ args[t].self # args[t].o
        /\ Authorities(args[t].self) # {}

\* thread t is comparing the two authority sets of its a == b
Comparing(t) == args[t].op = "eq" /\ pc[t] \in {"eq_size", "eq_elem"}

\* thread u is inside the locked section of add_authority or
\* remove_authority of bundle b
Mutating(u, b) == pc[u] \in {"add_body", "rm_body"} /\ args[u].self = b

\* C6: a == b is safe while other threads change a or b: whenever the
\* comparison reads an operand's authority set it holds that operand's lock,
\* so it never reads b's set while another thread is inside add_authority or
\* remove_authority of b.
C6_EqReadsUnderLock ==
    \A t \in Threads :
        Comparing(t) =>
           /\ lock[args[t].self] = t
           /\ lock[args[t].o] = t
           /\ \A u \in Threads \ {t} : ~Mutating(u, args[t].o)

Waiting(t) == pc[t] \in {"auth_lock", "add_lock", "rm_lock", "eq_lock"}

\* the bundle whose lock thread t is about to take
WaitsFor(t) ==
    IF pc[t] = "eq_lock"
    THEN EqLocks(args[t].self, args[t].o)[iter[t].k + 1]
    ELSE args[t].self

Blocked(t) == Waiting(t) /\ lock[WaitsFor(t)] # NoThread

\* C7: no deadlock: a thread inside a call can always go on, unless it
\* waits for a bundle's lock, and then another thread holds that lock and
\* can go on; so a == b against b == a, a == a, and these mixed with
\* add_authority / remove_authority / x509_authorities never leave every
\* thread blocked.
C7_NoDeadlock ==
    \A t \in Threads :
        pc[t] # "idle" =>
           \/ ENABLED EqStep(t)
           \/ /\ Blocked(t)
              /\ lock[WaitsFor(t)] # t
              /\ ~Blocked(lock[WaitsFor(t)])
              /\ ENABLED EqStep(lock[WaitsFor(t)])

\* a == b and b == a are both inside their locked sections, and elsewhere
\* a thread runs a == a
C7_Witness ==
    \E t, u \in Threads :
        /\ t # u
        /\ Comparing(t) /\ Comparing(u)
        /\ args[t].self = args[u].o /\ args[t].o = args[u].self
        /\ args[t].self # args[t].o
        /\ lock[args[t].self] = t /\ lock[args[u].self] = u

\* C8: a save that runs while other threads add and remove authorities
\* writes a consistent snapshot: the authorities in the file of a save that
\* returned are a set the bundle held at some instant of the call.
C8_SaveSnapshot ==
    \A t \in Threads :
        Ended(t, "save") /\ res[t] = Return("None") =>
           Range(files[t].certs) \in seen[t]

\* C9: save with an encoding other than PEM and DER raises ArgumentError and
\* writes nothing; with PEM or DER it returns, or raises SaveX509BundleError
\* carrying the cause; and no step of save changes a bundle's trust domain
\* or authority set.
C9_SaveErrors ==
    /\ [](\A t \in Threads :
            Ended(t, "save") =>
               IF args[t].enc \notin {"PEM", "DER"}
               THEN res[t].kind = "ArgumentError"
               ELSE \/ res[t] = Return("None")
                    \/ /\ res[t].kind = "SaveX509BundleError"
                       /\ res[t].info \in {"OSError", "RuntimeError"})
    /\ [][\A t \in Threads :
            args[t].op = "save" /\ pc[t] # "done" =>
               /\ UNCHANGED <<live, trust_domain, x509_authorities, heap>>
               /\ (args[t].enc \notin {"PEM", "DER"} => files' = files)]_vars

\* save has raised ArgumentError, and the file written by an earlier save
\* is still there
C9_Witness ==
    \E t \in Threads :
        /\ Ended(t, "save") /\ res[t].kind = "ArgumentError"
        /\ files[t].exists /\ files[t].certs # <<>>
        /\ Authorities(args[t].self) # {}

\* C10: parse and parse_raw called with an empty trust domain raise
\* X509BundleError, whatever the bytes.
C10_ParseEmptyTrustDomain ==
    \A t \in Threads :
        (Ended(t, "parse") \/ Ended(t, "parse_raw")) /\ ~Truthy(args[t].td) =>
           res[t].kind = "X509BundleError"

\* the decoder a parse call uses
DecoderOf(op) == IF op = "parse" THEN "PEM" ELSE "DER"

\* C11: parse and parse_raw have no partial success: with a non-empty trust
\* domain they return a new bundle of that trust domain whose authority set
\* is exactly the set of the certificates the whole input encodes, or, when
\* the decoding fails (malformed or empty bytes), raise ParseX509BundleError
\* and leave no bundle; a decoding failure shows as no other error.
C11_ParseNoPartial ==
    \A t \in Threads :
        (Ended(t, "parse") \/ Ended(t, "parse_raw")) /\ Truthy(args[t].td) =>
           LET b == args[t].self
               bs == args[t].bytes IN
           IF Decode(DecoderOf(args[t].op), bs).ok
           THEN /\ res[t] = Return("bundle")
                /\ live[b] /\ trust_domain[b] = args[t].td
                /\ Authorities(b) = Range(bs.certs)
           ELSE /\ res[t].kind = "ParseX509BundleError"
                /\ ~live[b]

\* parse_raw has failed on the PEM encoding of two certificates, next to a
\* bundle that an earlier parse returned
C11_Witness ==
    \E t \in Threads :
        /\ Ended(t, "parse_raw") /\ Truthy(args[t].td)
        /\ args[t].bytes.enc = "PEM" /\ Len(args[t].bytes.certs) = 2
        /\ res[t].kind = "ParseX509BundleError"
        /\ ~live[args[t].self]
        /\ \E b \in Bundles : live[b] /\ Authorities(b) # {}

\* the bytes of the file at thread t's path
FileBytes(t) == [enc |-> files[t].enc, certs |-> files[t].certs]

\* what parse (enc = "PEM") or parse_raw (enc = "DER") makes of (d, bs) for
\* slot b, as seen when thread t's call has ended
ParsedAs(t, enc, d, bs, b) ==
    IF ~Decode(enc, bs).ok
    THEN res[t].kind = "ParseX509BundleError" /\ ~live[b]
    ELSE IF ~Truthy(d)
    THEN res[t] = Raise("X509BundleError", MISSING_TRUST_DOMAIN) /\ ~live[b]
    ELSE /\ res[t] = Return("bundle")
         /\ live[b] /\ trust_domain[b] = d
         /\ Authorities(b) = Range(bs.certs)

\* C12: load with an encoding that is neither PEM nor DER raises
\* ArgumentError, as save does, whatever the file; with PEM or DER it raises
\* LoadX509BundleError when the file cannot be read, and otherwise ends as
\* parse (PEM) or parse_raw (DER) ends on the bytes of the file, errors
\* included.
C12_LoadOutcomes ==
    \A t \in Threads :
        Ended(t, "load") =>
           LET e == args[t].enc IN
           IF e \notin {"PEM", "DER"}
           THEN res[t].kind = "ArgumentError"
           ELSE /\ ~files[t].exists => res[t].kind = "LoadX509BundleError"
                /\ res[t].kind # "LoadX509BundleError" =>
                      ParsedAs(t, e, args[t].td, FileBytes(t), args[t].self)

\* C13: round trip: a save that returned has written exactly the bundle's
\* authorities, in the encoding asked for; and when a bundle with a
\* non-empty authority set (as parse and parse_raw return for valid input)
\* was saved with PEM or DER and has not changed since, load with the same
\* trust domain and encoding, once the file is read, returns a new bundle
\* with the same trust domain and the same authority set.
C13_RoundTrip ==
    \A t \in Threads :
        /\ Ended(t, "save") /\ res[t] = Return("None") =>
              /\ files[t].exists /\ files[t].done
              /\ files[t].of = args[t].self /\ files[t].enc = args[t].enc
              /\ Range(files[t].certs) = Authorities(args[t].self)
              /\ Len(files[t].certs) = Cardinality(Authorities(args[t].self))
        /\ Ended(t, "load") /\ res[t].kind # "LoadX509BundleError" =>
              LET f == files[t]
                  b == args[t].self IN
              (/\ f.done /\ args[t].enc = f.enc
               /\ Authorities(f.of) # {}
               /\ Authorities(f.of) = Range(f.certs)
               /\ args[t].td = trust_domain[f.of]) =>
                  /\ res[t] = Return("bundle")
                  /\ live[b] /\ b # f.of
                  /\ trust_domain[b] = trust_domain[f.of]
                  /\ Authorities(b) = Authorities(f.of)

\* load has returned a bundle equal to the bundle of two authorities that
\* was saved, as DER, to the file it read
C13_Witness ==
    \E t \in Threads :
        /\ Ended(t, "load") /\ res[t] = Return("bundle")
        /\ files[t].done /\ files[t].enc = "DER" /\ args[t].enc = "DER"
        /\ files[t].of # args[t].self
        /\ Cardinality(Authorities(files[t].of)) = 2
        /\ Authorities(args[t].self) = Authorities(files[t].of)
        /\ trust_domain[args[t].self] = trust_domain[files[t].of]

\* C14: validate_headers reports the first failing check, in this order, and
\* otherwise returns: no headers at all: ValueError; 'alg' missing or empty:
\* ValueError again; 'alg' not one of the nine supported algorithms:
\* InvalidAlgorithmError naming it, whatever 'typ' is; 'typ' present,
\* non-empty and neither JWT nor JOSE: InvalidTypeError naming it; a missing
\* or empty 'typ' with a supported 'alg' is accepted.
C14_HeaderOrder ==
    \A t \in Threads :
        Ended(t, "validate_headers") =>
           LET h == args[t].headers
               noAlg == "alg" \notin h.keys \/ h.alg = ""
               noTyp == "typ" \notin h.keys \/ h.typ = "" IN
           IF h.keys = {} THEN res[t].kind = "ValueError"
           ELSE IF noAlg THEN res[t].kind = "ValueError"
           ELSE IF h.alg \notin SUPPORTED_ALGORITHMS
           THEN res[t] = Raise("InvalidAlgorithmError", h.alg)
           ELSE IF ~noTyp /\ h.typ \notin {"JWT", "JOSE"}
           THEN res[t] = Raise("InvalidTypeError", h.typ)
           ELSE res[t] = Return("None")

\* headers with an unsupported algorithm and an unsupported type were
\* rejected for the algorithm
C14_Witness ==
    \E t \in Threads :
        /\ Ended(t, "validate_headers")
        /\ args[t].headers.alg = "HS256" /\ args[t].headers.typ = "JWS"
        /\ res[t] = Raise("InvalidAlgorithmError", "HS256")

\* the token's audience list has an element that is not the empty string
SomeAudience(p) == \E i \in 1..Len(p.aud) : p.aud[i] # ""

\* C15: validate_claims reports the first failing check, in this order, and
\* returns only when all pass: 'aud', then 'exp', then 'sub' missing or falsy
\* (MissingClaimError naming the claim); the expiration (TokenExpiredError;
\* an 'exp' that is no integer fails here with ValueError); an empty
\* expected_audience (ValueError); an audience list of blank strings, and
\* one that lacks an expected value (InvalidClaimError).
C15_ClaimsOrder ==
    \A t \in Threads :
        Ended(t, "validate_claims") =>
           LET p == args[t].payload
               E == args[t].expected IN
           IF ClaimFalsy(p, "aud") THEN res[t] = Raise("MissingClaimError", "aud")
           ELSE IF ClaimFalsy(p, "exp") THEN res[t] = Raise("MissingClaimError", "exp")
           ELSE IF ClaimFalsy(p, "sub") THEN res[t] = Raise("MissingClaimError", "sub")
           ELSE IF ~p.expInt THEN res[t].kind = "ValueError"
           ELSE IF p.exp < args[t].now THEN res[t].kind = "TokenExpiredError"
           ELSE IF E = {} THEN res[t].kind = "ValueError"
           ELSE IF ~SomeAudience(p) THEN res[t].kind = "InvalidClaimError"
           ELSE IF ~(E \subseteq Range(p.aud)) THEN res[t].kind = "InvalidClaimError"
           ELSE res[t] = Return("None")

\* an expired token whose audience does not match was rejected as expired
C15_Witness ==
    \E t \in Threads :
        /\ Ended(t, "validate_claims")
        /\ args[t].payload.aud = <<"a", "b">> /\ args[t].expected = {"a", "c"}
        /\ args[t].payload.sub = "s"
        /\ args[t].payload.exp > 0 /\ args[t].payload.exp < args[t].now
        /\ res[t].kind = "TokenExpiredError"

\* the required claims are there, `exp` is an integer not in the past, and
\* some audience is expected
Current(t) ==
    /\ MissingClaims(args[t].payload) = {}
    /\ args[t].payload.expInt
    /\ args[t].payload.exp >= args[t].now
    /\ args[t].expected # {}

\* C16 as stated: with the required claims present, exp not in the past and
\* a non-empty expected_audience, validate_claims returns exactly when every
\* expected value is in the token's audience list, and otherwise raises
\* InvalidClaimError('audience does not match expected value').
C16_AudienceSubset ==
    \A t \in Threads :
        Ended(t, "validate_claims") /\ Current(t) =>
           IF args[t].expected \subseteq Range(args[t].payload.aud)
           THEN res[t] = Return("None")
           ELSE res[t] = Raise("InvalidClaimError",
                               "audience does not match expected value")

\* C16, amended: the same, for a token whose audience list has at least one
\* element that is not the empty string.
C16_AudienceSubsetNonBlank ==
    \A t \in Threads :
        Ended(t, "validate_claims") /\ Current(t)
           /\ SomeAudience(args[t].payload) =>
           IF args[t].expected \subseteq Range(args[t].payload.aud)
           THEN res[t] = Return("None")
           ELSE res[t] = Raise("InvalidClaimError",
                               "audience does not match expected value")

\* a token for a and b was rejected for the expected audiences a and c
C16_Witness ==
    \E t \in Threads :
        /\ Ended(t, "validate_claims") /\ Current(t)
        /\ args[t].payload.aud = <<"a", "b">> /\ args[t].expected = {"a", "c"}
        /\ res[t] = Raise("InvalidClaimError",
                          "audience does not match expected value")

\* C17: for a payload whose aud, exp and sub are present and not falsy, with
\* an integer exp, validate_claims raises TokenExpiredError exactly when exp
\* is less than the clock's second: exp equal to it, or later, is not expired.
C17_ExpirationStrict ==
    \A t \in Threads :
        Ended(t, "validate_claims") /\ MissingClaims(args[t].payload) = {}
           /\ args[t].payload.expInt =>
           (res[t].kind = "TokenExpiredError" <=>
               args[t].payload.exp < args[t].now)

\* a token that expires in the very second of the validation was accepted
C17_Witness ==
    \E t \in Threads :
        /\ Ended(t, "validate_claims") /\ Current(t)
        /\ args[t].payload.exp = args[t].now
        /\ res[t] = Return("None")

\* 'aud' is in the payload, exp and sub pass, some audience is expected
AudGiven(t) ==
    /\ "aud" \in args[t].payload.keys
    /\ ~ClaimFalsy(args[t].payload, "exp") /\ ~ClaimFalsy(args[t].payload, "sub")
    /\ args[t].payload.expInt
    /\ args[t].payload.exp >= args[t].now
    /\ args[t].expected # {}

\* C18 as stated: with exp not expired, sub present and a non-empty
\* expected_audience, validate_claims raises InvalidClaimError whenever the
\* token's 'aud' is an empty list or a list of empty strings only.
C18_BlankAudience ==
    \A t \in Threads :
        Ended(t, "validate_claims") /\ AudGiven(t)
           /\ ~SomeAudience(args[t].payload) =>
           res[t].kind = "InvalidClaimError"

\* C18, amended: under the same conditions a non-empty list of empty
\* strings raises InvalidClaimError('audience_claim cannot be empty'), and
\* an empty list raises MissingClaimError('aud').
C18_BlankOrMissingAudience ==
    \A t \in Threads :
        Ended(t, "validate_claims") /\ AudGiven(t)
           /\ ~SomeAudience(args[t].payload) =>
           IF args[t].payload.aud = <<>>
           THEN res[t] = Raise("MissingClaimError", "aud")
           ELSE res[t] = Raise("InvalidClaimError", "audience_claim cannot be empty")

\* a token whose audience is the empty string was rejected although the
\* empty string is the expected audience
C18_Witness ==
    \E t \in Threads :
        /\ Ended(t, "validate_claims") /\ AudGiven(t)
        /\ args[t].payload.aud = <<"">> /\ args[t].expected = {""}
        /\ res[t] = Raise("InvalidClaimError", "audience_claim cannot be empty")

\* thread t is inside a lock-guarded section of bundle b: the body of
\* x509_authorities, add_authority or remove_authority, or the comparison
\* of b == o
InSection(t, b) ==
    /\ args[t].self = b
    /\ pc[t] \in {"auth_body", "add_body", "rm_body", "eq_td", "eq_size", "eq_elem"}

\* C19: the operations of one bundle are atomic with respect to each other:
\* at most one thread is inside a lock-guarded section of a bundle, and it
\* holds the bundle's lock; a bundle's authority set changes only in the
\* step of one add_authority or remove_authority call on it, by that call's
\* sequential effect on the set as it is then (so the calls take effect one
\* after the other, between their start and their end, and none is lost);
\* and x509_authorities returns the set as it is at one instant.
C19_Atomic ==
    /\ [](\A b \in Bundles : \A t \in Threads :
            InSection(t, b) =>
               /\ lock[b] = t
               /\ \A u \in Threads \ {t} : ~InSection(u, b))
    /\ [][\A b \in Bundles :
            /\ AuthoritiesAfter(b) # Authorities(b) =>
                  \E t \in Threads :
                     /\ InSection(t, b) /\ lock[b] = t
                     /\ Done(t, "add_authority") \/ Done(t, "remove_authority")
                     /\ \A u \in Threads \ {t} : pc'[u] = pc[u]
            /\ \A t \in Threads :
                  /\ Done(t, "add_authority") /\ args[t].self = b =>
                        AuthoritiesAfter(b) = Authorities(b) \cup {args[t].cert}
                  /\ Done(t, "remove_authority") /\ args[t].self = b =>
                        AuthoritiesAfter(b) = Authorities(b) \ {args[t].cert}
                  /\ Done(t, "x509_authorities") /\ args[t].self = b =>
                        /\ heap'[res'[t].ref] = Authorities(b)
                        /\ AuthoritiesAfter(b) = Authorities(b)
          ]_vars

\* one thread is inside add_authority(c) of a bundle that lacks c while
\* another waits to remove c from the same bundle
C19_Witness ==
    \E t, u \in Threads :
        /\ t # u
        /\ pc[t] = "add_body" /\ pc[u] = "rm_lock"
        /\ args[t].self = args[u].self /\ args[t].cert = args[u].cert
        /\ args[t].cert \notin Authorities(args[t].self)
        /\ lock[args[t].self] = t

====
